---------------------------- MODULE Spec2Model ----------------------------
(***************************************************************************)
(* A model of refurb's repeated-append check (check_stmts) and of its      *)
(* diagnostic pipeline (ignored_via_comment, sort_errors, run_refurb).     *)
(*                                                                         *)
(* Text is a sequence of one-character strings, so that the suppression    *)
(* regex, the rendering of an error code and the comparison of sort keys   *)
(* are computed character by character, as Python computes them.           *)
(***************************************************************************)
EXTENDS Integers, Sequences, FiniteSets, TLC

VARIABLES
    stmts,      \* check_stmts: the statements of the block scanned so far
    last,       \* check_stmts: the scan state (Last)
    errors,     \* check_stmts / run_refurb: the errors list
    source,     \* the source lines of the files on disk: path -> lines
    error,      \* ignored_via_comment: its argument
    ignored,    \* ignored_via_comment: its result, once pc = "filtered"
    items,      \* sorted(..., key=sort_errors): its argument
    pc,         \* where the call of the function under study stands
    inputs,     \* run_refurb: settings and what the engine answers
    result      \* sorted / run_refurb: the value returned

vars == <<stmts, last, errors, source, error, ignored, items, pc, inputs, result>>

(***************************************************************************)
(* Bounds of the model.                                                    *)
(***************************************************************************)
\* Longest statement block scanned by check_stmts.
MaxStmts == 6
\* Longest source line, in tokens, handed to ignored_via_comment.
MaxTokens == 3
\* Longest list handed to sorted.
MaxItems == 3
\* Longest statement block of the file analysed by run_refurb.
MaxFileStmts == 3
\* Most messages of a failing process_options or build.
MaxMessages == 2

(***************************************************************************)
(* Text.                                                                   *)
(***************************************************************************)
\* Python's None, for a filename that is unset and for a regex group that
\* did not take part in the match.  No text equals it: every element of a
\* text is a single character.
None == <<"None">>

\* The code points of the characters the model uses.
CodePoint ==
    "\t" :> 9 @@ "\n" :> 10 @@ " " :> 32 @@ "#" :> 35 @@ "(" :> 40 @@ "." :> 46
    @@ "0" :> 48 @@ "1" :> 49 @@ "2" :> 50 @@ "3" :> 51 @@ "4" :> 52
    @@ "5" :> 53 @@ "6" :> 54 @@ "7" :> 55 @@ "8" :> 56 @@ "9" :> 57
    @@ ":" :> 58 @@ ";" :> 59 @@ "B" :> 66 @@ "F" :> 70 @@ "M" :> 77 @@ "R" :> 82
    @@ "U" :> 85 @@ "X" :> 88 @@ "a" :> 97 @@ "b" :> 98 @@ "e" :> 101
    @@ "f" :> 102 @@ "i" :> 105 @@ "l" :> 108 @@ "m" :> 109 @@ "n" :> 110 @@ "o" :> 111 @@ "p" :> 112
    @@ "q" :> 113 @@ "r" :> 114 @@ "u" :> 117 @@ "x" :> 120 @@ "y" :> 121

Digits == <<"0", "1", "2", "3", "4", "5", "6", "7", "8", "9">>

IsDigit(c) == CodePoint[c] >= 48 /\ CodePoint[c] <= 57

IsUpper(c) == CodePoint[c] >= 65 /\ CodePoint[c] <= 90

\* s[from:] of Python, from counted from 0.
Drop(s, from) == SubSeq(s, from + 1, Len(s))

\* Whether text t stands in s at position p (counted from 1).
LitAt(s, p, t) ==
    /\ p + Len(t) - 1 <= Len(s)
    /\ SubSeq(s, p, p + Len(t) - 1) = t

\* str < str of Python: by code point, a proper prefix first.
StrLess(a, b) ==
    \E k \in 1..(Len(b)) :
        /\ k <= Len(a) + 1
        /\ SubSeq(a, 1, k - 1) = SubSeq(b, 1, k - 1)
        /\ (k = Len(a) + 1 \/ CodePoint[a[k]] < CodePoint[b[k]])

\* str(n) of Python for n >= 0.
RECURSIVE IntStr(_)
IntStr(n) == IF n < 10 THEN <<Digits[n + 1]>>
             ELSE IntStr(n \div 10) \o <<Digits[(n % 10) + 1]>>

(***************************************************************************)
(* Errors.  An item of an errors list is an Error or a str (a raw          *)
(* message); both are records of one shape, told apart by kind.            *)
(***************************************************************************)
FURB == <<"F", "U", "R", "B">>

UseListExtendCode == 113

\* The message, without its backquotes.
UseListExtendMsg == "Use x.extend(...) instead of repeatedly calling x.append()"

Error(filename, line, column, prefix, code, msg) ==
    [kind |-> "Error", text |-> <<>>, filename |-> filename, line |-> line,
     column |-> column, prefix |-> prefix, code |-> code, msg |-> msg]

RawMessage(text) ==
    [kind |-> "str", text |-> text, filename |-> None, line |-> 0,
     column |-> 0, prefix |-> <<>>, code |-> 0, msg |-> ""]

ErrorUseListExtend(line, column) ==
    Error(None, line, column, FURB, UseListExtendCode, UseListExtendMsg)

\* str(ErrorCode.from_error(type(error))): the prefix, then the code.
ErrorCodeStr(e) == e.prefix \o IntStr(e.code)

(***************************************************************************)
(* check_stmts.                                                            *)
(***************************************************************************)
Names == {"x", "y"}

\* `name.method(...)` as an expression statement.
MethodCallStmt(name, method) ==
    [stmt |-> "ExpressionStmt", expr |-> "CallExpr", callee |-> "MemberExpr",
     receiver |-> "NameExpr", name |-> name, method |-> method]

\* `print(x)`: a call whose callee is a name, not a member access.
PrintStmt ==
    [stmt |-> "ExpressionStmt", expr |-> "CallExpr", callee |-> "NameExpr",
     receiver |-> "none", name |-> "print", method |-> "none"]

\* The statements a scanned block is made of.
Shapes == {MethodCallStmt(n, "append") : n \in Names}
              \cup {MethodCallStmt("x", "extend")}

At(shape, line, column) ==
    [stmt |-> shape.stmt, expr |-> shape.expr, callee |-> shape.callee,
     receiver |-> shape.receiver, name |-> shape.name,
     method |-> shape.method, line |-> line, column |-> column]

\* The case pattern of check_stmts.
IsAppendStmt(s) ==
    /\ s.stmt = "ExpressionStmt"
    /\ s.expr = "CallExpr"
    /\ s.callee = "MemberExpr"
    /\ s.receiver = "NameExpr"
    /\ s.method = "append"

NewLast == [name |-> "", line |-> 0, column |-> 0, did_error |-> FALSE]

\* Whether the append on `name` is reported.
Reports(l, name) == ~l.did_error /\ name = l.name

\* The place of the statement that triggers a report.
AnchorAtStmt(l, s) == <<s.line, s.column>>

\* Where the report is anchored: at the place the scan state holds.
Anchor(l, s) == <<l.line, l.column>>

\* A flag that an append on another receiver would clear.
FlagClearedByNewName(l, name) ==
    IF name = l.name THEN TRUE ELSE FALSE

\* The flag after an append on `name`: set by a report, else as it was.
FlagAfter(l, name) == IF Reports(l, name) THEN TRUE ELSE l.did_error

\* One iteration of the loop over stmts: the pair <<last, errors>> after it.
ScanStmt(l, errs, s) ==
    IF IsAppendStmt(s)
    THEN <<[name |-> s.name, line |-> s.line, column |-> s.column,
            did_error |-> FlagAfter(l, s.name)],
           IF Reports(l, s.name)
           THEN Append(errs, ErrorUseListExtend(Anchor(l, s)[1], Anchor(l, s)[2]))
           ELSE errs>>
    ELSE <<NewLast, errs>>

\* The loop of check_stmts over a whole block, from a given scan state.
RECURSIVE ScanFrom(_, _, _)
ScanFrom(l, errs, block) ==
    IF block = <<>> THEN errs
    ELSE LET after == ScanStmt(l, errs, Head(block))
         IN ScanFrom(after[1], after[2], Tail(block))

\* check_stmts(stmts, errors): errors after the call.
check_stmts(block, errs) == ScanFrom(NewLast, errs, block)

\* The places the next statement of a block may stand at: on a line of its
\* own, or after the previous statement on the same line.
NextPlaces(block) ==
    IF block = <<>> THEN {<<1, 0>>}
    ELSE LET p == block[Len(block)]
         IN {<<p.line + 1, 0>>, <<p.line, p.column + 1>>}


(***************************************************************************)
(* The values of the variables a specification does not use.               *)
(***************************************************************************)
NoError == RawMessage(<<>>)

ScanIdle == stmts = <<>> /\ last = NewLast /\ errors = <<>>

FilterIdle == source = <<>> /\ error = NoError /\ ignored = FALSE

SortIdle == items = <<>>

RunIdle == inputs = <<>>

(***************************************************************************)
(* get_source_lines and ignored_via_comment.                               *)
(***************************************************************************)
\* str.splitlines() on text whose only line break is "\n": the text before
\* each break, and the text after the last one unless it is empty.
RECURSIVE SplitFrom(_, _, _)
SplitFrom(text, p, cur) ==
    IF p > Len(text) THEN (IF cur = <<>> THEN <<>> ELSE <<cur>>)
    ELSE IF text[p] = "\n" THEN <<cur>> \o SplitFrom(text, p + 1, <<>>)
    ELSE SplitFrom(text, p + 1, Append(cur, text[p]))

splitlines(text) == SplitFrom(text, 1, <<>>)

\* Path(filepath).read_text("utf8").splitlines(), of the files on disk.
get_source_lines(src, filepath) == splitlines(src[filepath])

\* seq[i] of Python, i counted from 0, a negative i from the end.
GetItem(seq, i) == IF i >= 0 THEN seq[i + 1] ELSE seq[Len(seq) + i + 1]

NOQA == <<"#", " ", "n", "o", "q", "a">>

NoMatch == [found |-> FALSE, group |-> None]

\* `$`: the end of the text, or just before a line break that ends it.
AtEnd(s, p) == p = Len(s) + 1 \/ (p = Len(s) /\ s[p] = "\n")

\* `: [A-Z]{n}\d{3}$` at q.
TagAt(s, q, n) ==
    /\ LitAt(s, q, <<":", " ">>)
    /\ q + n + 4 <= Len(s)
    /\ \A k \in 0..(n - 1) : IsUpper(s[q + 2 + k])
    /\ \A k \in 0..2 : IsDigit(s[q + 2 + n + k])
    /\ AtEnd(s, q + n + 5)

\* `# noqa(: [A-Z]{3,4}\d{3})?$` tried at p: the longer tag first, then the
\* shorter, then none.
MatchAt(s, p) ==
    IF ~LitAt(s, p, NOQA) THEN NoMatch
    ELSE LET q == p + Len(NOQA)
         IN IF TagAt(s, q, 4)
            THEN [found |-> TRUE, group |-> SubSeq(s, q, q + 8)]
            ELSE IF TagAt(s, q, 3)
            THEN [found |-> TRUE, group |-> SubSeq(s, q, q + 7)]
            ELSE IF AtEnd(s, q)
            THEN [found |-> TRUE, group |-> None]
            ELSE NoMatch

\* re.search(pattern, line): the match at the leftmost position that has one.
SearchNoqa(s) ==
    LET at == {p \in 1..(Len(s) + 1) : MatchAt(s, p).found}
    IN IF at = {} THEN NoMatch
       ELSE MatchAt(s, CHOOSE p \in at : \A o \in at : p <= o)

\* A test that takes any tag for the error's.
AnyTagIgnores(ignore, error_code) == TRUE

\* `not ignore or ignore[2:] == error_code`.
TagIgnores(ignore, error_code) ==
    ignore = None \/ Drop(ignore, 2) = error_code

\* Lines 67-74: the verdict on the text of the error's line.
IgnoredOnLine(line, e) ==
    LET comment == SearchNoqa(line)
    IN comment.found /\ TagIgnores(comment.group, ErrorCodeStr(e))

Falsy(filename) == filename = None \/ filename = <<>>

\* Line 62: a str, or an Error without a filename.
Unattributed(e) == e.kind = "str" \/ Falsy(e.filename)

\* The line before the error's (the last line, before the first).
LineBefore(src, e) == GetItem(get_source_lines(src, e.filename), e.line - 2)

\* Line 65: the line of the file the verdict is read from.
LineOf(src, e) == GetItem(get_source_lines(src, e.filename), e.line - 1)

ignored_via_comment(src, e) ==
    IF Unattributed(e) THEN FALSE
    ELSE IgnoredOnLine(LineOf(src, e), e)

(***************************************************************************)
(* sort_errors and sorted.                                                 *)
(***************************************************************************)
\* The elements of a key: a str or an int.
StrElem(v) == [t |-> "str", v |-> v]

IntElem(v) == [t |-> "int", v |-> v]

\* `error.filename or ""`.
FilenameOrEmpty(e) == IF Falsy(e.filename) THEN <<>> ELSE e.filename

sort_errors(e) ==
    IF e.kind = "str" THEN <<StrElem(<<>>), StrElem(e.text)>>
    ELSE <<StrElem(FilenameOrEmpty(e)), IntElem(e.line), IntElem(e.column),
           StrElem(e.prefix), IntElem(e.code)>>

\* a == b of two elements: a str never equals an int.
ElemEq(a, b) == a.t = b.t /\ a.v = b.v

\* a < b of two tuples, as Python decides it: "true", "false", or
\* "TypeError" when the first elements that differ are a str and an int.
TupleLess(a, b) ==
    LET n == IF Len(a) < Len(b) THEN Len(a) ELSE Len(b)
        diff == {k \in 1..n : ~ElemEq(a[k], b[k])}
    IN IF diff = {}
       THEN (IF Len(a) < Len(b) THEN "true" ELSE "false")
       ELSE LET k == CHOOSE d \in diff : \A o \in diff : d <= o
            IN IF a[k].t # b[k].t THEN "TypeError"
               ELSE IF a[k].t = "str"
               THEN (IF StrLess(a[k].v, b[k].v) THEN "true" ELSE "false")
               ELSE (IF a[k].v < b[k].v THEN "true" ELSE "false")

Raised == [raised |-> TRUE, value |-> <<>>]

Returned(value) == [raised |-> FALSE, value |-> value]

\* x put into the sorted list acc, after the last of its first k items
\* that is not greater than x: the sort is stable.
RECURSIVE InsertFrom(_, _, _)
InsertFrom(acc, x, k) ==
    IF k = 0 THEN Returned(<<x>> \o acc)
    ELSE LET less == TupleLess(sort_errors(x), sort_errors(acc[k]))
         IN IF less = "TypeError" THEN Raised
            ELSE IF less = "true" THEN InsertFrom(acc, x, k - 1)
            ELSE Returned(SubSeq(acc, 1, k) \o <<x>>
                              \o SubSeq(acc, k + 1, Len(acc)))

RECURSIVE SortFrom(_, _)
SortFrom(acc, rest) ==
    IF rest = <<>> THEN Returned(acc)
    ELSE LET put == InsertFrom(acc, Head(rest), Len(acc))
         IN IF put.raised THEN Raised ELSE SortFrom(put.value, Tail(rest))

\* sorted(list, key=sort_errors): the sorted list, or the TypeError of a
\* comparison.
sorted(list) == SortFrom(<<>>, list)

(***************************************************************************)
(* SpecNoqa: ignored_via_comment on one error and one file of two lines.   *)
(* inputs holds the lines the file was written from.                       *)
(***************************************************************************)
Tokens ==
    { <<"x">>, <<" ">>, <<"\t">>, NOQA,
      <<":", " ", "F", "U", "R", "B", "1", "1", "3">>,
      <<":", " ", "F", "U", "R", "1", "1", "3">>,
      <<":", " ", "F", "U", "R", "B", "1", "1">>,
      <<":", " ", "F", "U", "R", "B", "X", "1", "1", "3">> }

\* The texts made of at most n tokens.
RECURSIVE TokenTexts(_)
TokenTexts(n) ==
    IF n = 0 THEN {<<>>}
    ELSE LET shorter == TokenTexts(n - 1)
         IN shorter \cup {t \o tok : t \in shorter, tok \in Tokens}

\* A line that carries a bare marker and nothing else.
MarkedLine == <<"x", " ">> \o NOQA

\* The file's text: its lines, each ended by a line break.
RECURSIVE JoinLines(_)
JoinLines(lines) ==
    IF lines = <<>> THEN <<>>
    ELSE Head(lines) \o <<"\n">> \o JoinLines(Tail(lines))

PathA == <<"a", ".", "p", "y">>

PathB == <<"b", ".", "p", "y">>

\* The code of some other check.
OtherCode == UseListExtendCode + 1

CheckedErrors ==
    {Error(f, l, 0, FURB, c, UseListExtendMsg) :
        f \in {None, <<>>, PathA}, l \in {1, 2},
        c \in {UseListExtendCode, OtherCode}}
    \cup {RawMessage(<<"x">>)}

InitNoqa ==
    /\ ScanIdle /\ SortIdle
    /\ pc = "filter"
    /\ result = <<>>
    /\ ignored = FALSE
    /\ error \in CheckedErrors
    /\ \E t \in TokenTexts(MaxTokens) :
           inputs \in {<<t, MarkedLine>>, <<MarkedLine, t>>}
    /\ source = [f \in {PathA} |-> JoinLines(inputs)]

\* Lines 62-63: nothing is read from disk.
KeepUnattributed ==
    /\ pc = "filter"
    /\ Unattributed(error)
    /\ ignored' = ignored_via_comment(source, error)
    /\ pc' = "filtered"
    /\ UNCHANGED <<stmts, last, errors, source, error, items, inputs, result>>

\* Lines 65-74: the verdict is read from the error's line.
JudgeByComment ==
    /\ pc = "filter"
    /\ ~Unattributed(error)
    /\ ignored' = ignored_via_comment(source, error)
    /\ pc' = "filtered"
    /\ UNCHANGED <<stmts, last, errors, source, error, items, inputs, result>>

NextNoqa == KeepUnattributed \/ JudgeByComment

SpecNoqa == InitNoqa /\ [][NextNoqa]_vars

(***************************************************************************)
(* Claims about ignored_via_comment.                                       *)
(***************************************************************************)
EndsWith(s, t) == Len(t) <= Len(s) /\ SubSeq(s, Len(s) - Len(t) + 1, Len(s)) = t

\* s without its trailing spaces and tabs.
RECURSIVE RStrip(_)
RStrip(s) ==
    IF s # <<>> /\ s[Len(s)] \in {" ", "\t"}
    THEN RStrip(SubSeq(s, 1, Len(s) - 1))
    ELSE s

\* The error was judged by the comment of its line.
Judged == pc = "filtered" /\ error.kind = "Error" /\ ~Falsy(error.filename)

\* C4: an error with a filename is dropped exactly if the text of its line
\* (line number error.line, counted from 1) ends with a bare `# noqa`, or
\* with `# noqa: ` and the error's rendered prefix+code; no other line
\* counts.
C4_VerdictFromOwnLine ==
    Judged =>
        (ignored <=>
            \/ EndsWith(inputs[error.line], NOQA)
            \/ EndsWith(inputs[error.line],
                        NOQA \o <<":", " ">> \o ErrorCodeStr(error)))

\* An error was kept although the other line of its file carries a bare
\* marker, its own line carrying the tag of another code.
C4_Witness ==
    /\ Judged
    /\ ignored = FALSE
    /\ error.code = OtherCode
    /\ EndsWith(inputs[error.line], NOQA \o <<":", " ">> \o FURB \o IntStr(113))
    /\ \E l \in 1..Len(inputs) : l # error.line /\ EndsWith(inputs[l], NOQA)

\* C5: spaces and tabs after the marker do not count: the verdict on a line
\* is the verdict on the line without its trailing whitespace.
C5_TrailingSpaceIgnored ==
    Judged =>
        ignored = IgnoredOnLine(RStrip(inputs[error.line]), error)

(***************************************************************************)
(* SpecStmts: check_stmts scanning a block, one statement per step.  The   *)
(* block is any sequence of at most MaxStmts statements, so every state    *)
(* is the outcome of check_stmts on the block stmts.                       *)
(***************************************************************************)
InitStmts ==
    /\ ScanIdle /\ FilterIdle /\ SortIdle /\ RunIdle
    /\ pc = "scan"
    /\ result = <<>>

Scan(s) ==
    /\ stmts' = Append(stmts, s)
    /\ last' = ScanStmt(last, errors, s)[1]
    /\ errors' = ScanStmt(last, errors, s)[2]
    /\ UNCHANGED <<source, error, ignored, items, pc, inputs, result>>

\* The loop body on a statement the case pattern matches.
ScanAppend ==
    /\ pc = "scan"
    /\ Len(stmts) < MaxStmts
    /\ \E shape \in Shapes, place \in NextPlaces(stmts) :
           /\ IsAppendStmt(shape)
           /\ Scan(At(shape, place[1], place[2]))

\* The loop body on any other statement (case _).
ScanOther ==
    /\ pc = "scan"
    /\ Len(stmts) < MaxStmts
    /\ \E shape \in Shapes, place \in NextPlaces(stmts) :
           /\ ~IsAppendStmt(shape)
           /\ Scan(At(shape, place[1], place[2]))

NextStmts == ScanAppend \/ ScanOther

SpecStmts == InitStmts /\ [][NextStmts]_vars

(***************************************************************************)
(* Runs and segments of a block.                                           *)
(***************************************************************************)
AppendOn(block, k, name) == IsAppendStmt(block[k]) /\ block[k].name = name

\* i..j is a maximal run of appends on one receiver name.
IsRun(block, i, j) ==
    /\ i <= j
    /\ \A k \in i..j : AppendOn(block, k, block[i].name)
    /\ (i = 1 \/ ~AppendOn(block, i - 1, block[i].name))
    /\ (j = Len(block) \/ ~AppendOn(block, j + 1, block[i].name))

Runs(block) ==
    UNION {{<<i, j>> : j \in {j \in i..Len(block) : IsRun(block, i, j)}} :
           i \in {i \in 1..Len(block) : IsAppendStmt(block[i])}}

\* i..j is a maximal segment of appends, on whatever receivers.
IsSegment(block, i, j) ==
    /\ i <= j
    /\ \A k \in i..j : IsAppendStmt(block[k])
    /\ (i = 1 \/ ~IsAppendStmt(block[i - 1]))
    /\ (j = Len(block) \/ ~IsAppendStmt(block[j + 1]))

Segments(block) ==
    UNION {{<<i, j>> : j \in {j \in i..Len(block) : IsSegment(block, i, j)}} :
           i \in {i \in 1..Len(block) : IsAppendStmt(block[i])}}

AnchoredAt(e, s) == e.kind = "Error" /\ e.line = s.line /\ e.column = s.column

\* The errors (by index) anchored at one of the statements i..j of the block.
ErrorsIn(errs, block, i, j) ==
    {n \in 1..Len(errs) : \E k \in i..j : AnchoredAt(errs[n], block[k])}

(***************************************************************************)
(* Claims about check_stmts.                                               *)
(***************************************************************************)
\* C1: every maximal run of k appends on one receiver has exactly one
\* diagnostic if k >= 2 and none if k = 1, in every block.
C1_OnePerRun ==
    \A r \in Runs(stmts) :
        Cardinality(ErrorsIn(errors, stmts, r[1], r[2]))
            = IF r[2] > r[1] THEN 1 ELSE 0

\* C2: every diagnostic of check_stmts has code 113 and stands at the first
\* statement of a run of two or more appends, never at a later statement
\* of the run.
C2_AnchoredAtRunStart ==
    LET runs == Runs(stmts)
    IN \A n \in 1..Len(errors) :
           /\ errors[n].code = 113
           /\ \E r \in runs :
                  /\ r[2] > r[1]
                  /\ AnchoredAt(errors[n], stmts[r[1]])
                  /\ \A k \in (r[1] + 1)..r[2] :
                         ~AnchoredAt(errors[n], stmts[k])

\* A run of three appends was scanned and reported.
C2_Witness ==
    \E r \in Runs(stmts) :
        /\ r[2] >= r[1] + 2
        /\ ErrorsIn(errors, stmts, r[1], r[1]) # {}

\* C3: two runs on the same receiver with a non-matching statement between
\* them are reported independently: each one of length >= 2 has its own
\* diagnostic, anchored at its first statement.
C3_RunsApartIndependent ==
    \A r1 \in Runs(stmts), r2 \in Runs(stmts) :
        (/\ stmts[r1[1]].name = stmts[r2[1]].name
         /\ \E k \in (r1[2] + 1)..(r2[1] - 1) : ~IsAppendStmt(stmts[k]))
        => \A r \in {r1, r2} :
               r[2] > r[1]
               => Cardinality(ErrorsIn(errors, stmts, r[1], r[1])) = 1

\* What does hold of the reset: after a non-matching statement the scan
\* state is the empty one, and a run that starts right after it (or at the
\* start of the block) is reported whatever was reported before.
ResetByOther ==
    /\ (stmts # <<>> /\ ~IsAppendStmt(stmts[Len(stmts)])) => last = NewLast
    /\ \A r \in Runs(stmts) :
           (r[2] > r[1] /\ (r[1] = 1 \/ ~IsAppendStmt(stmts[r[1] - 1])))
           => Cardinality(ErrorsIn(errors, stmts, r[1], r[1])) = 1

\* C10: a maximal segment of appends holds at most one diagnostic, whatever
\* the receivers in it, so a block has at most as many diagnostics as
\* segments; the flag stays set from the report to the end of the segment.
C10_OnePerSegment ==
    LET segs == Segments(stmts)
    IN /\ \A g \in segs :
              Cardinality(ErrorsIn(errors, stmts, g[1], g[2])) <= 1
       /\ Len(errors) <= Cardinality(segs)
       /\ last.did_error
              <=> \E g \in segs :
                      /\ g[2] = Len(stmts)
                      /\ ErrorsIn(errors, stmts, g[1], g[2]) # {}

\* A segment with two same-receiver pairs, the second one after the report.
C10_Witness ==
    \E g \in Segments(stmts) :
        /\ Cardinality(ErrorsIn(errors, stmts, g[1], g[2])) = 1
        /\ \E r1 \in Runs(stmts), r2 \in Runs(stmts) :
               /\ g[1] <= r1[1] /\ r1[1] < r1[2]
               /\ r1[2] < r2[1] /\ r2[1] < r2[2] /\ r2[2] <= g[2]

(***************************************************************************)
(* SpecSort: sorted(items, key=sort_errors) on any list of at most         *)
(* MaxItems errors and raw messages.                                       *)
(***************************************************************************)
OtherMsg == "Use another idiom"

SortedErrors ==
    {Error(f, at[1], at[2], FURB, cm[1], cm[2]) :
        f \in {None, <<>>, PathA, PathB},
        at \in {<<1, 0>>, <<1, 1>>, <<2, 0>>},
        cm \in {<<UseListExtendCode, UseListExtendMsg>>,
                <<UseListExtendCode, OtherMsg>>, <<OtherCode, OtherMsg>>}}

SortedItems == SortedErrors \cup {RawMessage(<<"a">>), RawMessage(<<"b">>)}

InitSort ==
    /\ ScanIdle /\ FilterIdle /\ RunIdle
    /\ pc = "sort"
    /\ result = <<>>
    /\ \E n \in 0..MaxItems : items \in [1..n -> SortedItems]

\* The sort returns the sorted list.
SortReturns ==
    /\ pc = "sort"
    /\ ~sorted(items).raised
    /\ result' = sorted(items).value
    /\ pc' = "sorted"
    /\ UNCHANGED <<stmts, last, errors, source, error, ignored, items, inputs>>

\* A comparison of two keys raises, and so does the sort.
SortRaises ==
    /\ pc = "sort"
    /\ sorted(items).raised
    /\ pc' = "raised"
    /\ UNCHANGED <<stmts, last, errors, source, error, ignored, items, inputs,
                   result>>

NextSort == SortReturns \/ SortRaises

SpecSort == InitSort /\ [][NextSort]_vars

(***************************************************************************)
(* Claims about sort_errors.                                               *)
(***************************************************************************)
\* The order of the claim on Errors: filename, line, column, prefix, code.
ErrorNotAfter(a, b) ==
    LET fa == FilenameOrEmpty(a)
        fb == FilenameOrEmpty(b)
    IN \/ StrLess(fa, fb)
       \/ /\ fa = fb
          /\ \/ a.line < b.line
             \/ /\ a.line = b.line
                /\ \/ a.column < b.column
                   \/ /\ a.column = b.column
                      /\ \/ StrLess(a.prefix, b.prefix)
                         \/ a.prefix = b.prefix /\ a.code <= b.code

\* C7: sorting any mixed list yields a sequence in which every raw message
\* stands before every Error, whatever the Errors' filenames (unset and
\* empty ones too), the Errors in the order of filename, line, column,
\* prefix, code and the raw messages in the order of their text.
C7_RawFirst ==
    pc # "sort" =>
        /\ pc = "sorted"
        /\ \A i \in 1..Len(result), j \in 1..Len(result) :
               i < j =>
                   /\ ~(result[i].kind = "Error" /\ result[j].kind = "str")
                   /\ (result[i].kind = "Error" /\ result[j].kind = "Error")
                          => ErrorNotAfter(result[i], result[j])
                   /\ (result[i].kind = "str" /\ result[j].kind = "str")
                          => ~StrLess(result[j].text, result[i].text)

\* The lists that hold the same items as list, each as often.
Reorderings(list) ==
    {[i \in 1..Len(list) |-> list[f[i]]] :
        f \in {g \in [1..Len(list) -> 1..Len(list)] :
                 \A i, j \in 1..Len(list) : i # j => g[i] # g[j]}}

\* C8: sorting any permutation of a list yields what sorting the list
\* yields, and sorting the sorted list returns it unchanged, also when
\* distinct items have equal keys.
C8_OrderDetermined ==
    pc # "sort" =>
        /\ \A p \in Reorderings(items) : sorted(p) = sorted(items)
        /\ pc = "sorted" => sorted(result) = Returned(result)

(***************************************************************************)
(* run_refurb.                                                             *)
(***************************************************************************)
REFURB == <<"r", "e", "f", "u", "r", "b", ":", " ">>

MYPY == <<"m", "y", "p", "y", ":", " ">>

\* re.sub("^mypy: ", "refurb: ", msg).
SubMypy(msg) ==
    IF LitAt(msg, 1, MYPY) THEN REFURB \o Drop(msg, Len(MYPY)) ELSE msg

\* Line 84: the lines of what process_options wrote to stderr.
OptionErrors(stderr) ==
    LET lines == splitlines(stderr)
    IN [k \in 1..Len(lines) |-> RawMessage(REFURB \o lines[k])]

\* Line 97: the messages of the CompileError.
CompileErrors(messages) ==
    [k \in 1..Len(messages) |-> RawMessage(SubMypy(messages[k]))]

\* str(tree), as far as it is told apart from other texts.
TreeText == <<"M", "y", "p", "y", "F", "i", "l", "e", ":", "1", "(">>

NoTree == <<[stmt |-> "None"]>>

\* The errors the visitor collects on a tree: those of check_stmts on the
\* module's block of statements.
VisitorErrors(tree) == check_stmts(tree, <<>>)

\* Lines 111-112: each error gets the file's path.
WithFilename(errs, path) ==
    [k \in 1..Len(errs) |-> [errs[k] EXCEPT !.filename = path]]

\* Lines 102-114: what one file adds to errors.
FileErrors(file, debug) ==
    IF file.tree = NoTree THEN <<>>
    ELSE (IF debug THEN <<RawMessage(TreeText)>> ELSE <<>>)
             \o WithFilename(VisitorErrors(file.tree), file.path)

\* Lines 99-114: errors after the loop over files.
RECURSIVE CollectErrors(_, _)
CollectErrors(files, debug) ==
    IF files = <<>> THEN <<>>
    ELSE FileErrors(Head(files), debug) \o CollectErrors(Tail(files), debug)

\* Line 117: the errors no comment ignores.
Unignored(src, errs) ==
    SelectSeq(errs, LAMBDA e : ~ignored_via_comment(src, e))

\* Lines 116-119.
Report(src, errs) == sorted(Unignored(src, errs))

(***************************************************************************)
(* SpecRun: one call of run_refurb.  inputs holds settings.debug and what  *)
(* the engine answers: the failure of process_options with its stderr, the *)
(* CompileError of build with its messages, or the files with their trees. *)
(* The first file is any block of at most MaxFileStmts statements, each    *)
(* followed on its line by the next statement or by the end of the line,   *)
(* with or without a suppression comment.                                  *)
(***************************************************************************)
FileShapes == {MethodCallStmt(n, "append") : n \in Names} \cup {PrintStmt}

Suffixes ==
    { <<>>, <<" ">> \o NOQA,
      <<" ">> \o NOQA \o <<":", " ">> \o FURB \o <<"1", "1", "3">> }

\* A statement of the file and what follows it on its line.
Entries ==
    {[shape |-> sh, eol |-> TRUE, suffix |-> sf] :
        sh \in FileShapes, sf \in Suffixes}
    \cup {[shape |-> sh, eol |-> FALSE, suffix |-> <<>>] : sh \in FileShapes}

\* The source text of a statement, as far as the pipeline reads it.
StmtText(shape) ==
    IF shape = PrintStmt THEN <<"p">>
    ELSE IF shape.name = "x" THEN <<"x">> ELSE <<"y">>

Piece(entry) ==
    StmtText(entry.shape) \o (IF entry.eol THEN entry.suffix ELSE <<";", " ">>)

LineNo(en, k) == 1 + Cardinality({j \in 1..(k - 1) : en[j].eol})

RECURSIVE Column(_, _)
Column(en, k) ==
    IF k = 1 \/ en[k - 1].eol THEN 0
    ELSE Column(en, k - 1) + Len(Piece(en[k - 1]))

\* The tree the engine builds from the entries.
TreeOf(en) ==
    [k \in 1..Len(en) |-> At(en[k].shape, LineNo(en, k), Column(en, k))]

RECURSIVE PiecesOfLine(_, _, _)
PiecesOfLine(en, k, l) ==
    IF k > Len(en) THEN <<>>
    ELSE (IF LineNo(en, k) = l THEN Piece(en[k]) ELSE <<>>)
             \o PiecesOfLine(en, k + 1, l)

\* The lines of the file written from the entries.
LinesOf(en) ==
    IF en = <<>> THEN <<>>
    ELSE [l \in 1..LineNo(en, Len(en)) |-> PiecesOfLine(en, 1, l)]

FileOf(path, en) == [path |-> path, tree |-> TreeOf(en), lines |-> LinesOf(en)]

TwoAppends ==
    <<[shape |-> MethodCallStmt("x", "append"), eol |-> TRUE, suffix |-> <<>>],
      [shape |-> MethodCallStmt("x", "append"), eol |-> TRUE, suffix |-> <<>>]>>

\* What may stand after the first file in the list of files.
MoreFiles ==
    { <<>>, <<FileOf(PathA, TwoAppends)>>,
      <<[path |-> PathA, tree |-> NoTree, lines |-> <<>>]>> }

StderrLines == {<<"b">>, <<"a">>}

EngineMessages == {MYPY \o <<"b">>, <<"a">>}

NoFailure == [debug |-> FALSE, options |-> "ok", stderr |-> <<>>,
              build |-> "ok", messages |-> <<>>, files |-> <<>>]

\* The files on disk: the text of every file that has a path.
DiskOf(files) ==
    [f \in {files[k].path : k \in {k \in 1..Len(files) : files[k].path # None}}
        |-> JoinLines((CHOOSE file \in {files[k] : k \in 1..Len(files)} :
                           file.path = f).lines)]

InitRun ==
    /\ ScanIdle /\ SortIdle
    /\ error = NoError /\ ignored = FALSE
    /\ pc = "run"
    /\ result = <<>>
    /\ \/ \E n \in 0..MaxMessages : \E lines \in [1..n -> StderrLines] :
              inputs = [NoFailure EXCEPT !.options = "SystemExit",
                                         !.stderr = JoinLines(lines)]
       \/ \E n \in 0..MaxMessages : \E messages \in [1..n -> EngineMessages] :
              inputs = [NoFailure EXCEPT !.build = "CompileError",
                                         !.messages = messages]
       \/ \E n \in 0..MaxFileStmts : \E en \in [1..n -> Entries] :
          \E path \in {None, PathB}, more \in MoreFiles, debug \in BOOLEAN :
              inputs = [NoFailure EXCEPT !.debug = debug,
                                         !.files = <<FileOf(path, en)>> \o more]
    /\ source = DiskOf(inputs.files)

\* Lines 80-84: process_options exits.
OptionsFail ==
    /\ pc = "run"
    /\ inputs.options = "SystemExit"
    /\ result' = OptionErrors(inputs.stderr)
    /\ pc' = "returned"
    /\ UNCHANGED <<stmts, last, errors, source, error, ignored, items, inputs>>

\* Lines 93-97: build raises CompileError.
BuildFails ==
    /\ pc = "run"
    /\ inputs.options = "ok"
    /\ inputs.build = "CompileError"
    /\ result' = CompileErrors(inputs.messages)
    /\ pc' = "returned"
    /\ UNCHANGED <<stmts, last, errors, source, error, ignored, items, inputs>>

\* Lines 99-119: the files are analysed and the report is returned.
Completes ==
    /\ pc = "run"
    /\ inputs.options = "ok"
    /\ inputs.build = "ok"
    /\ errors' = CollectErrors(inputs.files, inputs.debug)
    /\ ~Report(source, errors').raised
    /\ result' = Report(source, errors').value
    /\ pc' = "returned"
    /\ UNCHANGED <<stmts, last, source, error, ignored, items, inputs>>

\* Lines 99-119: the files are analysed and sorted raises TypeError.
CompletesRaising ==
    /\ pc = "run"
    /\ inputs.options = "ok"
    /\ inputs.build = "ok"
    /\ errors' = CollectErrors(inputs.files, inputs.debug)
    /\ Report(source, errors').raised
    /\ pc' = "raised"
    /\ UNCHANGED <<stmts, last, source, error, ignored, items, inputs, result>>

NextRun == OptionsFail \/ BuildFails \/ Completes \/ CompletesRaising

SpecRun == InitRun /\ [][NextRun]_vars

(***************************************************************************)
(* Claims about run_refurb.                                                *)
(***************************************************************************)
Contains(s, t) == \E p \in 1..Len(s) : LitAt(s, p, t)

InResult(e) == \E k \in 1..Len(result) : result[k] = e

\* run_refurb analysed the files and returned its report.
Reported ==
    pc = "returned" /\ inputs.options = "ok" /\ inputs.build = "ok"

\* The diagnostic of the run that starts at statement k of the file, as it
\* stands in errors once the file's path is set.
RunError(file, k) ==
    [ErrorUseListExtend(file.tree[k].line, file.tree[k].column)
        EXCEPT !.filename = file.path]

Emitted(e) == \E k \in 1..Len(errors) : errors[k] = e

\* C6: the diagnostic of a run is judged by the comment of the line of the
\* run's first statement alone: a `# noqa` at the end of that line drops
\* it, and with no marker on that line it is reported, whatever markers
\* the lines of the run's later statements carry.
C6_JudgedByAnchorLine ==
    (Reported /\ inputs.files[1].path # None) =>
        LET file == inputs.files[1]
        IN \A r \in Runs(file.tree) :
               (r[2] > r[1] /\ Emitted(RunError(file, r[1]))) =>
                   LET first == file.lines[file.tree[r[1]].line]
                   IN /\ EndsWith(first, NOQA)
                          => ~InResult(RunError(file, r[1]))
                      /\ ~Contains(first, NOQA)
                          => InResult(RunError(file, r[1]))

\* A run was reported although a later statement of it stands on a line
\* that ends with `# noqa`.
C6_Witness ==
    /\ Reported
    /\ inputs.files[1].path # None
    /\ LET file == inputs.files[1]
       IN \E r \in Runs(file.tree) :
              /\ r[2] > r[1]
              /\ Emitted(RunError(file, r[1]))
              /\ ~Contains(file.lines[file.tree[r[1]].line], NOQA)
              /\ \E k \in (r[1] + 1)..r[2] :
                     EndsWith(file.lines[file.tree[k].line], NOQA)
              /\ InResult(RunError(file, r[1]))

\* C9: whatever way run_refurb returns, what it returns holds no error
\* that ignored_via_comment drops and is in the order of sort_errors.
C9_ReturnsFilteredSorted ==
    pc = "returned" =>
        /\ \A k \in 1..Len(result) : ~ignored_via_comment(source, result[k])
        /\ \A k \in 1..(Len(result) - 1) :
               TupleLess(sort_errors(result[k + 1]), sort_errors(result[k]))
                   = "false"

\* What does hold: the report of a run that analysed its files is filtered
\* and sorted.
ReportFilteredSorted ==
    Reported =>
        /\ \A k \in 1..Len(result) : ~ignored_via_comment(source, result[k])
        /\ \A k \in 1..(Len(result) - 1) :
               TupleLess(sort_errors(result[k + 1]), sort_errors(result[k]))
                   = "false"

====
